---- MODULE Spec2Model ----
(***************************************************************************)
(* Subtitle search client: the App component (search box, result list,     *)
(* statistics) and the ResultItem component (time formatting, query        *)
(* highlighting, on-demand audio / video clip generation).                 *)
(*                                                                         *)
(* Strings whose characters matter (query, dialogue text, time stamps) are *)
(* sequences of one-character strings.                                     *)
(***************************************************************************)
EXTENDS Integers, Sequences, FiniteSets, TLC

VARIABLES
    \* ---- App.vue refs
    query,        \* ref('')     the v-model of the search input
    results,      \* ref([])     the list the result container renders
    loading,      \* ref(false)
    stats,        \* ref({ total_files: 0, total_dialogues: 0 })
    appMounted,   \* whether onMounted has run
    \* ---- ResultItem component instances
    inst,         \* instance id -> the instance's refs
    mounted,      \* the instances the v-for currently renders, by index (the key)
    \* ---- the network
    net,          \* requests sent and not yet answered
    \* ---- history
    latest,       \* the /search request issued last: its number, its query, its
                  \* fate, and whether an earlier one was pending when it was sent
    last,         \* the handler that ran last
    \* ---- ResultItem pure helpers, exercised on their own
    ftIn, ftOut,            \* formatTime argument / result
    hlText, hlQuery, hlOut  \* highlightText arguments / result

appVars == <<query, results, loading, stats, appMounted, inst, mounted, net,
             latest, last>>
ftVars  == <<ftIn, ftOut>>
hlVars  == <<hlText, hlQuery, hlOut>>
vars    == <<appVars, ftVars, hlVars>>

\* ------------------------------------------------------------------ bounds
MaxTimeLen  == 7    \* longest time string given to formatTime
MaxTextLen  == 4    \* longest text given to highlightText
MaxQueryLen == 2    \* longest query given to highlightText
MaxSearches == 2    \* /search requests issued in one run
MaxClips    == 2    \* clip requests (audio or video) in flight at once

\* ------------------------------------------------------------------ strings
StringsOver(alphabet, n) == UNION {[1..k -> alphabet] : k \in 0..n}

\* String.prototype.split(sep) for a one-character separator: always at least
\* one part; "" splits into [""].
RECURSIVE Split(_, _)
Split(s, sep) ==
    IF \A i \in 1..Len(s) : s[i] # sep
    THEN <<s>>
    ELSE LET i == CHOOSE k \in 1..Len(s) :
                      s[k] = sep /\ \A j \in 1..(k - 1) : s[j] # sep
         IN  <<SubSeq(s, 1, i - 1)>> \o Split(SubSeq(s, i + 1, Len(s)), sep)

\* ------------------------------------------------------------------ formatTime
TimeAlphabet == {"0", "3", ":", "."}
Digits       == {"0", "3"}

Returned(v) == [called |-> TRUE, threw |-> FALSE, value |-> v]
Threw       == [called |-> TRUE, threw |-> TRUE, value |-> <<>>]
NotCalled   == [called |-> FALSE, threw |-> FALSE, value |-> <<>>]

\* parts[2] is undefined when the string has exactly two parts, and
\* undefined.split throws a TypeError.
formatTime(timeStr) ==
    LET parts == Split(timeStr, ":")
    IN  IF Len(parts) >= 2
        THEN IF Len(parts) < 3
             THEN Threw
             ELSE Returned(parts[2] \o <<":">> \o Split(parts[3], ".")[1])
        ELSE Returned(timeStr)

FormatTimeInit ==
    /\ ftIn \in StringsOver(TimeAlphabet, MaxTimeLen)
    /\ ftOut = NotCalled

FormatTimeCall ==
    /\ ~ftOut.called
    /\ ftOut' = formatTime(ftIn)
    /\ UNCHANGED ftIn

\* ------------------------------------------------------------------ highlightText
TextAlphabet == {"a", "A", "b", "."}

\* The characters escapeRegExp's class [.*+?^${}()|[\]\\] names.
RegExpSpecial == {".", "*", "+", "?", "^", "$", "{", "}", "(", ")", "|", "[", "]", "\\"}

\* A faulty variant: the query goes into the pattern as it is.
escapeRegExp_None(str) == str

\* str.replace(/[.*+?^${}()|[\]\\]/g, '\\$&')
RECURSIVE escapeRegExp(_)
escapeRegExp(str) ==
    IF str = <<>> THEN <<>>
    ELSE (IF Head(str) \in RegExpSpecial THEN <<"\\", Head(str)>> ELSE <<Head(str)>>)
         \o escapeRegExp(Tail(str))

\* new RegExp(source): the atoms of a pattern built from the characters of
\* TextAlphabet, backslash escapes and the one capture group that encloses
\* the whole pattern (so $1 is the whole match). "\c" is the character c, "."
\* is any character but a line terminator, any other character is itself.
RECURSIVE PatternAtoms(_)
PatternAtoms(src) ==
    IF src = <<>> THEN <<>>
    ELSE IF Head(src) \in {"(", ")"}
    THEN PatternAtoms(Tail(src))
    ELSE IF Head(src) = "\\" /\ Len(src) >= 2
         THEN <<[any |-> FALSE, ch |-> src[2]]>> \o PatternAtoms(Tail(Tail(src)))
         ELSE IF Head(src) = "."
              THEN <<[any |-> TRUE, ch |-> "."]>> \o PatternAtoms(Tail(src))
              ELSE <<[any |-> FALSE, ch |-> Head(src)]>> \o PatternAtoms(Tail(src))

\* Canonicalize of the 'i' flag (no 'u' flag): the character's upper case.
Canonicalize(ch) == IF ch = "a" THEN "A" ELSE IF ch = "b" THEN "B" ELSE ch

AtomMatches(atom, ch) ==
    IF atom.any THEN ch # "\n" ELSE Canonicalize(atom.ch) = Canonicalize(ch)

\* Whether the pattern matches text at position p (1-based).
MatchesAt(atoms, text, p) ==
    /\ p + Len(atoms) - 1 <= Len(text)
    /\ \A k \in 1..Len(atoms) : AtomMatches(atoms[k], text[p + k - 1])

HlOpen  == "<span class=\"highlight\">"
HlClose == "</span>"

\* text.replace(regex, '<span class="highlight">$1</span>') with the 'g' flag:
\* scan from the left; at a match emit the marked match and continue after
\* it, otherwise copy one character. The result is a sequence of characters
\* and markers.
RECURSIVE ReplaceFrom(_, _, _)
ReplaceFrom(atoms, text, p) ==
    IF p > Len(text) THEN <<>>
    ELSE IF MatchesAt(atoms, text, p)
         THEN <<HlOpen>> \o SubSeq(text, p, p + Len(atoms) - 1) \o <<HlClose>>
              \o ReplaceFrom(atoms, text, p + Len(atoms))
         ELSE <<text[p]>> \o ReplaceFrom(atoms, text, p + 1)

highlightText(text, q) ==
    IF text = <<>> \/ q = <<>>
    THEN text
    ELSE ReplaceFrom(PatternAtoms(<<"(">> \o escapeRegExp(q) \o <<")">>), text, 1)

HighlightInit ==
    /\ hlText \in StringsOver(TextAlphabet, MaxTextLen)
    /\ hlQuery \in StringsOver(TextAlphabet, MaxQueryLen)
    /\ hlOut = NotCalled

HighlightCall ==
    /\ ~hlOut.called
    /\ hlOut' = Returned(highlightText(hlText, hlQuery))
    /\ UNCHANGED <<hlText, hlQuery>>

\* ------------------------------------------------------------------ the backend
\* The corpus the backend searches: one dialogue that the query "a" finds in
\* its chinese_text, one that the query "b" finds in its english_text, in the
\* other case.
Corpus ==
    << [season |-> 1, episode |-> 1, start_time |-> "0:00:01.00",
        end_time |-> "0:00:02.00", chinese_text |-> <<"a">>, english_text |-> <<"x">>],
       [season |-> 1, episode |-> 2, start_time |-> "0:03:11.39",
        end_time |-> "0:03:14.36", chinese_text |-> <<"y">>, english_text |-> <<"B">>] >>

\* Whether text contains q, case-insensitively.
ContainsCI(text, q) ==
    \E p \in 1..(Len(text) + 1) :
        /\ p + Len(q) - 1 <= Len(text)
        /\ \A k \in 1..Len(q) : Canonicalize(text[p + k - 1]) = Canonicalize(q[k])

Matches(d, q) == ContainsCI(d.chinese_text, q) \/ ContainsCI(d.english_text, q)

\* GET /search?q=...: the dialogues whose chinese_text or english_text matches.
SearchBackend(q) == SelectSeq(Corpus, LAMBDA d : Matches(d, q))

\* GET /stats
StatsBackend == [total_files |-> 2, total_dialogues |-> Len(Corpus)]

ClipParams(result) ==
    [season |-> result.season, episode |-> result.episode,
     start_time |-> result.start_time, end_time |-> result.end_time]

NoParams == [season |-> 0, episode |-> 0, start_time |-> "", end_time |-> ""]

\* POST /api/generate_audio, /api/generate_video: the url of the clip made
\* for the request's parameters.
ClipUrl(kind, params) == [kind |-> kind, of |-> params]
NoUrl == [kind |-> "", of |-> NoParams]

\* ------------------------------------------------------------------ program state
\* What the user types into the search input, which is empty at first.
Queries == {<<" ">>, <<"a">>, <<"b">>}

Whitespace == {" ", "\t", "\n"}

\* String.prototype.trim
RECURSIVE TrimLeft(_)
TrimLeft(s) == IF s # <<>> /\ Head(s) \in Whitespace THEN TrimLeft(Tail(s)) ELSE s

RECURSIVE TrimRight(_)
TrimRight(s) ==
    IF s # <<>> /\ s[Len(s)] \in Whitespace THEN TrimRight(SubSeq(s, 1, Len(s) - 1)) ELSE s

Trim(s) == TrimRight(TrimLeft(s))

Req(kind, id, q, k, params) ==
    [kind |-> kind, id |-> id, q |-> q, inst |-> k, params |-> params]

\* The instances alive at once: the mounted ones, at most one per corpus
\* entry, and the unmounted ones that pending clip requests refer to.
MaxInst == Len(Corpus) + MaxClips

\* A ResultItem instance after setup.
FreshItem ==
    [audioUrl |-> NoUrl, generating |-> FALSE, videoUrl |-> NoUrl, generatingVideo |-> FALSE]

\* The program's state as one value: what the handlers below read and write.
St ==
    [query |-> query, results |-> results, loading |-> loading, stats |-> stats,
     appMounted |-> appMounted, inst |-> inst, mounted |-> mounted, net |-> net]

\* ------------------------------------------------------------------ App.vue template
\* Whether instance k is mounted or a pending request's closure holds it.
Referenced(s, k) ==
    \/ \E i \in 1..Len(s.mounted) : s.mounted[i] = k
    \/ \E r \in s.net : r.inst = k

\* <div v-if="!loading && results.length > 0" class="results-container">
ResultListShown(s) == ~s.loading /\ Len(s.results) > 0

\* <div v-else-if="!loading && query && results.length === 0" ...>
EmptyStateShown(s) ==
    ~ResultListShown(s) /\ ~s.loading /\ s.query # <<>> /\ Len(s.results) = 0

\* The re-render after a handler has run. Without the result container no
\* ResultItem is mounted. With it, the v-for keys its children by index: the
\* child at an index that was rendered before is kept (its props updated, its
\* refs untouched), a child at a new index is a fresh instance, and the
\* children beyond the list's end are unmounted. A fresh instance takes an
\* id that nothing refers to.
Render(s) ==
    LET n     == IF ResultListShown(s) THEN Len(s.results) ELSE 0
        had   == Len(s.mounted)
        free  == {k \in DOMAIN s.inst : ~Referenced(s, k)}
        nth(j) == CHOOSE k \in free : Cardinality({m \in free : m < k}) = j - 1
        now   == [i \in 1..n |-> IF i <= had THEN s.mounted[i] ELSE nth(i - had)]
    IN  [s EXCEPT !.mounted = now,
                  !.inst    = [k \in DOMAIN s.inst |->
                                 IF \E i \in (had + 1)..n : now[i] = k
                                 THEN FreshItem ELSE s.inst[k]]]

\* The generate-audio button: v-if="!audioUrl && !generating"
AudioButtonShown(s, i) ==
    /\ i \in 1..Len(s.mounted)
    /\ s.inst[s.mounted[i]].audioUrl = NoUrl
    /\ ~s.inst[s.mounted[i]].generating

\* The generate-video button: v-if="!videoUrl && !generatingVideo"
VideoButtonShown(s, i) ==
    /\ i \in 1..Len(s.mounted)
    /\ s.inst[s.mounted[i]].videoUrl = NoUrl
    /\ ~s.inst[s.mounted[i]].generatingVideo

\* ------------------------------------------------------------------ App.vue handlers
\* A faulty variant: the guard tests the query as typed, without trim().
performSearch_NoTrim(s, id) ==
    IF s.query = <<>>
    THEN Render([s EXCEPT !.results = <<>>])
    ELSE Render([s EXCEPT !.loading = TRUE,
                          !.net = @ \cup {Req("search", id, s.query, 0, NoParams)}])

\* performSearch up to its await (or its early return); id names the request.
performSearch(s, id) ==
    IF Trim(s.query) = <<>>
    THEN Render([s EXCEPT !.results = <<>>])
    ELSE Render([s EXCEPT !.loading = TRUE,
                          !.net = @ \cup {Req("search", id, s.query, 0, NoParams)}])

\* A faulty variant: the catch does not empty results.
searchSettled_KeepsOnFail(s, r, outcome) ==
    Render([s EXCEPT !.results = IF outcome = "ok" THEN SearchBackend(r.q) ELSE @,
                     !.loading = FALSE,
                     !.net     = @ \ {r}])

\* performSearch from the await on: the try, the catch and the finally.
searchSettled(s, r, outcome) ==
    Render([s EXCEPT !.results = IF outcome = "ok" THEN SearchBackend(r.q) ELSE <<>>,
                     !.loading = FALSE,
                     !.net     = @ \ {r}])

\* Whether performSearch's catch shows an alert: it only logs to the console.
searchAlerts(outcome) == FALSE

\* onMounted: loadStats up to its await.
loadStats(s) ==
    [s EXCEPT !.appMounted = TRUE,
              !.net = @ \cup {Req("stats", 0, <<>>, 0, NoParams)}]

\* loadStats from the await on.
statsSettled(s, r, outcome) ==
    [s EXCEPT !.stats = IF outcome = "ok" THEN StatsBackend ELSE @,
              !.net   = @ \ {r}]

\* Whether loadStats's catch shows an alert: it only logs to the console.
statsAlerts(outcome) == FALSE

\* ------------------------------------------------------------------ ResultItem handlers
\* generateAudio of the item at index i, up to its await. props.result is the
\* entry of results the item renders when the button is clicked.
generateAudio(s, i) ==
    LET k == s.mounted[i]
    IN  [s EXCEPT !.inst[k].generating = TRUE,
                  !.net = @ \cup {Req("audio", 0, <<>>, k, ClipParams(s.results[i]))}]

\* A faulty variant: the url is stored in the other ref.
audioSettled_WritesVideoUrl(s, r, outcome) ==
    [s EXCEPT !.inst[r.inst].videoUrl   = IF outcome = "ok"
                                           THEN ClipUrl("audio", r.params) ELSE @,
              !.inst[r.inst].generating = FALSE,
              !.net = @ \ {r}]

\* A faulty variant: generating is reset after the assignment, not in a finally.
audioSettled_NoFinally(s, r, outcome) ==
    [s EXCEPT !.inst[r.inst].audioUrl   = IF outcome = "ok"
                                           THEN ClipUrl("audio", r.params) ELSE @,
              !.inst[r.inst].generating = IF outcome = "ok" THEN FALSE ELSE @,
              !.net = @ \ {r}]

\* generateAudio from the await on. outcome: "ok" (success true), "refused"
\* (success false) or "fail" (the request throws).
audioSettled(s, r, outcome) ==
    [s EXCEPT !.inst[r.inst].audioUrl   = IF outcome = "ok"
                                           THEN ClipUrl("audio", r.params) ELSE @,
              !.inst[r.inst].generating = FALSE,
              !.net = @ \ {r}]

\* A faulty variant: only the catch alerts.
audioAlerts_CatchOnly(outcome) == outcome = "fail"

\* alert(response.data.message || ...) / alert('...') in the else and the catch.
audioAlerts(outcome) == outcome # "ok"

generateVideo(s, i) ==
    LET k == s.mounted[i]
    IN  [s EXCEPT !.inst[k].generatingVideo = TRUE,
                  !.net = @ \cup {Req("video", 0, <<>>, k, ClipParams(s.results[i]))}]

videoSettled(s, r, outcome) ==
    [s EXCEPT !.inst[r.inst].videoUrl        = IF outcome = "ok"
                                                THEN ClipUrl("video", r.params) ELSE @,
              !.inst[r.inst].generatingVideo = FALSE,
              !.net = @ \ {r}]

videoAlerts(outcome) == outcome # "ok"

\* What happens when request r is answered with outcome.
Settled(s, r, outcome) ==
    CASE r.kind = "search" -> searchSettled(s, r, outcome)
      [] r.kind = "stats"  -> statsSettled(s, r, outcome)
      [] r.kind = "audio"  -> audioSettled(s, r, outcome)
      [] r.kind = "video"  -> videoSettled(s, r, outcome)

Outcomes(kind) ==
    IF kind \in {"audio", "video"} THEN {"ok", "refused", "fail"} ELSE {"ok", "fail"}

\* ------------------------------------------------------------------ actions
\* What is remembered of a handler's run: which handler, whether its request
\* failed, whether it called alert().
Event(op, failed, alert) == [op |-> op, failed |-> failed, alert |-> alert]

ClipsInFlight(s) == Cardinality({r \in s.net : r.kind \in {"audio", "video"}})

\* Nothing reads the refs of an unmounted instance: all that is left of it
\* are its pending requests, each of which has set its flag and will clear it.
Collect(s) ==
    [s EXCEPT !.inst = [k \in DOMAIN s.inst |->
        IF \E i \in 1..Len(s.mounted) : s.mounted[i] = k
        THEN s.inst[k]
        ELSE [FreshItem EXCEPT
                !.generating      = \E r \in s.net : r.inst = k /\ r.kind = "audio",
                !.generatingVideo = \E r \in s.net : r.inst = k /\ r.kind = "video"]]]

\* The program moves to state s.
Becomes(s0) ==
    \E s \in {Collect(s0)} :
    /\ query' = s.query
    /\ results' = s.results
    /\ loading' = s.loading
    /\ stats' = s.stats
    /\ appMounted' = s.appMounted
    /\ inst' = s.inst
    /\ mounted' = s.mounted
    /\ net' = s.net

SearchOutstanding(s) == \E r \in s.net : r.kind = "search"

\* The state after both components' setup, before onMounted.
AppIdle ==
    /\ query = <<>> /\ results = <<>> /\ loading = FALSE
    /\ stats = [total_files |-> 0, total_dialogues |-> 0]
    /\ appMounted = FALSE
    /\ inst = [k \in 1..MaxInst |-> FreshItem]
    /\ mounted = <<>> /\ net = {}
    /\ latest = [id |-> 0, q |-> <<>>, status |-> "", overlaps |-> FALSE]
    /\ last = Event("setup", FALSE, FALSE)

Init ==
    /\ AppIdle
    /\ ftIn = <<>> /\ ftOut = NotCalled
    /\ hlText = <<>> /\ hlQuery = <<>> /\ hlOut = NotCalled

OnMounted ==
    /\ ~appMounted
    /\ Becomes(loadStats(St))
    /\ last' = Event("loadStats", FALSE, FALSE)
    /\ UNCHANGED <<latest, ftVars, hlVars>>

\* The user edits the search input (v-model="query").
TypeQuery(q) ==
    /\ appMounted
    /\ q # query
    /\ Becomes(Render([St EXCEPT !.query = q]))
    /\ UNCHANGED <<latest, last, ftVars, hlVars>>

\* The user presses enter in the input or clicks the search button.
PerformSearch ==
    /\ appMounted
    /\ LET id == latest.id + 1
       IN  IF Trim(query) = <<>>
           THEN /\ Becomes(performSearch(St, id))
                /\ last' = Event("searchBlank", FALSE, FALSE)
                /\ UNCHANGED latest
           ELSE /\ id <= MaxSearches
                /\ Becomes(performSearch(St, id))
                /\ last' = Event("searchSent", FALSE, FALSE)
                /\ latest' = [id |-> id, q |-> query, status |-> "pending",
                               overlaps |-> SearchOutstanding(St)]
    /\ UNCHANGED <<ftVars, hlVars>>

SearchSettles(r, outcome) ==
    /\ r \in net /\ r.kind = "search"
    /\ Becomes(searchSettled(St, r, outcome))
    /\ last' = Event("searchSettled", outcome # "ok", searchAlerts(outcome))
    /\ latest' = IF r.id = latest.id THEN [latest EXCEPT !.status = outcome] ELSE latest
    /\ UNCHANGED <<ftVars, hlVars>>

StatsSettles(r, outcome) ==
    /\ r \in net /\ r.kind = "stats"
    /\ Becomes(statsSettled(St, r, outcome))
    /\ last' = Event("statsSettled", outcome # "ok", statsAlerts(outcome))
    /\ UNCHANGED <<latest, ftVars, hlVars>>

\* The user clicks the generate-audio button of the item at index i.
GenerateAudio(i) ==
    /\ AudioButtonShown(St, i)
    /\ ClipsInFlight(St) < MaxClips
    /\ Becomes(generateAudio(St, i))
    /\ last' = Event("audioSent", FALSE, FALSE)
    /\ UNCHANGED <<latest, ftVars, hlVars>>

AudioSettles(r, outcome) ==
    /\ r \in net /\ r.kind = "audio"
    /\ Becomes(audioSettled(St, r, outcome))
    /\ last' = Event("audioSettled", outcome # "ok", audioAlerts(outcome))
    /\ UNCHANGED <<latest, ftVars, hlVars>>

GenerateVideo(i) ==
    /\ VideoButtonShown(St, i)
    /\ ClipsInFlight(St) < MaxClips
    /\ Becomes(generateVideo(St, i))
    /\ last' = Event("videoSent", FALSE, FALSE)
    /\ UNCHANGED <<latest, ftVars, hlVars>>

VideoSettles(r, outcome) ==
    /\ r \in net /\ r.kind = "video"
    /\ Becomes(videoSettled(St, r, outcome))
    /\ last' = Event("videoSettled", outcome # "ok", videoAlerts(outcome))
    /\ UNCHANGED <<latest, ftVars, hlVars>>

Next ==
    \/ OnMounted
    \/ \E q \in Queries : TypeQuery(q)
    \/ PerformSearch
    \/ \E r \in net, o \in Outcomes("search") : SearchSettles(r, o)
    \/ \E r \in net, o \in Outcomes("stats") : StatsSettles(r, o)
    \/ \E i \in 1..Len(mounted) : GenerateAudio(i)
    \/ \E r \in net, o \in Outcomes("audio") : AudioSettles(r, o)
    \/ \E i \in 1..Len(mounted) : GenerateVideo(i)
    \/ \E r \in net, o \in Outcomes("video") : VideoSettles(r, o)

Spec == Init /\ [][Next]_vars

\* ------------------------------------------------------------------ the helpers alone
FormatTimeSpecInit == AppIdle /\ FormatTimeInit /\ hlText = <<>> /\ hlQuery = <<>> /\ hlOut = NotCalled
FormatTimeNext == FormatTimeCall /\ UNCHANGED <<appVars, hlVars>>
FormatTimeSpec == FormatTimeSpecInit /\ [][FormatTimeNext]_vars

HighlightSpecInit == AppIdle /\ HighlightInit /\ ftIn = <<>> /\ ftOut = NotCalled
HighlightNext == HighlightCall /\ UNCHANGED <<appVars, ftVars>>
HighlightSpec == HighlightSpecInit /\ [][HighlightNext]_vars

\* ================================================================== claims
\* ------------------------------------------------------------------ C1
\* C1. When performSearch completes -- by its early return or once its request
\* is answered -- results is the empty list or every entry's chinese_text or
\* english_text contains the query the call sent, case-insensitively.
C1_ResultsMatchQuery ==
    [][ /\ \A r \in net, o \in Outcomes("search") :
              SearchSettles(r, o) =>
                  \/ results' = <<>>
                  \/ \A i \in 1..Len(results') : Matches(results'[i], r.q)
        /\ (PerformSearch /\ Trim(query) = <<>>) => results' = <<>> ]_vars

\* A search for "b" has been answered with the dialogue whose english_text is "B".
C1_Witness ==
    /\ last.op = "searchSettled" /\ ~last.failed
    /\ latest.id = 1 /\ latest.q = <<"b">>
    /\ Len(results) = 1 /\ results[1].english_text = <<"B">>

\* ------------------------------------------------------------------ C2
\* C2 as stated. Every API call that fails, by a non-success response or by
\* an exception, shows an alert.
C2_EveryFailureAlerts == last.failed => last.alert

\* C2, amended. A failed audio or video generation shows an alert; a failed
\* search or stats load shows none.
C2_ClipFailuresAlert ==
    last.failed => (last.alert <=> last.op \in {"audioSettled", "videoSettled"})

C2_Witness == last.op = "videoSettled" /\ last.failed /\ last.alert

\* ------------------------------------------------------------------ C3
HlMarkers == {HlOpen, HlClose}

\* The result with the markers removed.
Strip(out) == SelectSeq(out, LAMBDA c : c \notin HlMarkers)

\* The markers come in pairs: an opening one, then a closing one.
WellMarked(out) ==
    LET ms == SelectSeq(out, LAMBDA c : c \in HlMarkers)
    IN  /\ Len(ms) % 2 = 0
        /\ \A j \in 1..Len(ms) : ms[j] = IF j % 2 = 1 THEN HlOpen ELSE HlClose

\* The stretches of the text that the result marks: <<first, last>> positions
\* in the text, for a well-marked result whose text begins at position pos.
RECURSIVE Spans(_, _)
Spans(out, pos) ==
    IF out = <<>> THEN {}
    ELSE IF Head(out) = HlOpen
         THEN LET j == CHOOSE k \in 1..Len(out) :
                           out[k] = HlClose /\ \A m \in 1..(k - 1) : out[m] # HlClose
              IN  {<<pos, pos + j - 3>>} \cup Spans(SubSeq(out, j + 1, Len(out)), pos + j - 2)
         ELSE Spans(Tail(out), pos + 1)

\* q occurs in text at position p, case-insensitively.
OccursAt(text, q, p) ==
    /\ p >= 1 /\ p + Len(q) - 1 <= Len(text)
    /\ \A k \in 1..Len(q) : Canonicalize(text[p + k - 1]) = Canonicalize(q[k])

Occurrences(text, q) == {p \in 1..Len(text) : OccursAt(text, q, p)}

\* What C3 says of every call but its "every occurrence": the markers are
\* paired, removing them gives the text back, only occurrences are marked,
\* and a text without an occurrence, or an empty text or query, comes back
\* unchanged.
C3_Rest(text, q, out) ==
    /\ WellMarked(out)
    /\ Strip(out) = text
    /\ q # <<>> => \A s \in Spans(out, 1) : s[2] = s[1] + Len(q) - 1 /\ OccursAt(text, q, s[1])
    /\ (text = <<>> \/ q = <<>> \/ Occurrences(text, q) = {}) => out = text

\* C3 as stated. For a non-empty query every case-insensitive occurrence of
\* the query is inside a marker of its own, removing the markers gives the
\* text back, and a text without an occurrence comes back unchanged.
C3_EveryOccurrenceMarked ==
    hlOut.called =>
        /\ C3_Rest(hlText, hlQuery, hlOut.value)
        /\ hlQuery # <<>> =>
               \A p \in Occurrences(hlText, hlQuery) :
                   <<p, p + Len(hlQuery) - 1>> \in Spans(hlOut.value, 1)

\* C3, amended. The occurrences marked are those a scan from the left finds:
\* an occurrence is marked exactly when it does not begin inside an occurrence
\* marked before it.
C3_LeftmostOccurrencesMarked ==
    hlOut.called =>
        /\ C3_Rest(hlText, hlQuery, hlOut.value)
        /\ hlQuery # <<>> =>
               \A p \in 1..Len(hlText) :
                   <<p, p + Len(hlQuery) - 1>> \in Spans(hlOut.value, 1)
                   <=> /\ OccursAt(hlText, hlQuery, p)
                       /\ ~\E s \in Spans(hlOut.value, 1) : s[1] < p /\ p <= s[2]

\* "aAa" searched for "Aa": the occurrences at 1 and 2 overlap, the first is marked.
C3_Witness ==
    /\ hlOut.called
    /\ hlText = <<"a", "A", "a">> /\ hlQuery = <<"A", "a">>
    /\ hlOut.value = <<HlOpen, "a", "A", HlClose, "a">>

\* ------------------------------------------------------------------ C4
\* A time string of the form H:MM:SS.ms: digits, a colon at i, a colon at j,
\* a dot at k, no field empty.
IsClockTime(s, i, j, k) ==
    /\ 1 < i /\ i + 1 < j /\ j + 1 < k /\ k < Len(s)
    /\ s[i] = ":" /\ s[j] = ":" /\ s[k] = "."
    /\ \A m \in (1..Len(s)) \ {i, j, k} : s[m] \in Digits

\* C4. formatTime returns a string for every string; it turns H:MM:SS.ms into
\* MM:SS, and returns a string with fewer than two colon-separated parts
\* unchanged.
C4_FormatTime ==
    ftOut.called =>
        /\ ~ftOut.threw
        /\ \A i, j, k \in 1..Len(ftIn) :
               IsClockTime(ftIn, i, j, k) =>
                   ftOut.value = SubSeq(ftIn, i + 1, j - 1) \o <<":">> \o SubSeq(ftIn, j + 1, k - 1)
        /\ (\A m \in 1..Len(ftIn) : ftIn[m] # ":") => ftOut.value = ftIn

\* ------------------------------------------------------------------ C5
\* What the user sees and what is pending, whatever the instances are called:
\* a request names the index its instance is rendered at, or 0.
View(s) ==
    LET at(k) == IF \E i \in 1..Len(s.mounted) : s.mounted[i] = k
                 THEN CHOOSE i \in 1..Len(s.mounted) : s.mounted[i] = k
                 ELSE 0
    IN  [query |-> s.query, results |-> s.results, loading |-> s.loading,
         stats |-> s.stats,
         items |-> [i \in 1..Len(s.mounted) |-> s.inst[s.mounted[i]]],
         net |-> {[r EXCEPT !.inst = at(r.inst)] : r \in s.net}]

\* The parts of the state a call of each kind leaves alone, s before and t after.
KeepsOthers(kind, k, s, t) ==
    LET stays(j) == (\E i \in 1..Len(s.mounted) : s.mounted[i] = j)
                    /\ (\E i \in 1..Len(t.mounted) : t.mounted[i] = j)
    IN
    CASE kind = "search" ->
             /\ t.query = s.query /\ t.stats = s.stats
             /\ \A j \in DOMAIN s.inst : stays(j) => t.inst[j] = s.inst[j]
      [] kind = "stats" ->
             /\ t.query = s.query /\ t.results = s.results /\ t.loading = s.loading
             /\ t.inst = s.inst /\ t.mounted = s.mounted
      [] kind = "audio" ->
             /\ t.query = s.query /\ t.results = s.results /\ t.loading = s.loading
             /\ t.stats = s.stats /\ t.mounted = s.mounted
             /\ \A j \in DOMAIN s.inst : j # k => t.inst[j] = s.inst[j]
             /\ t.inst[k].videoUrl = s.inst[k].videoUrl
             /\ t.inst[k].generatingVideo = s.inst[k].generatingVideo
      [] kind = "video" ->
             /\ t.query = s.query /\ t.results = s.results /\ t.loading = s.loading
             /\ t.stats = s.stats /\ t.mounted = s.mounted
             /\ \A j \in DOMAIN s.inst : j # k => t.inst[j] = s.inst[j]
             /\ t.inst[k].audioUrl = s.inst[k].audioUrl
             /\ t.inst[k].generating = s.inst[k].generating

\* C5. A search, a stats load, an audio and a video generation each write
\* their own state only, when they start and when they are answered; and two
\* pending calls of different kinds leave the same state behind in whichever
\* order they are answered.
C5_Independent ==
    /\ KeepsOthers("search", 0, St, performSearch(St, latest.id + 1))
    /\ \A i \in 1..Len(mounted) :
           /\ KeepsOthers("audio", mounted[i], St, generateAudio(St, i))
           /\ KeepsOthers("video", mounted[i], St, generateVideo(St, i))
    /\ \A r \in net :
           \A o \in Outcomes(r.kind) : KeepsOthers(r.kind, r.inst, St, Settled(St, r, o))
    /\ \A r1, r2 \in net :
           r1.kind # r2.kind =>
               \A o1 \in Outcomes(r1.kind), o2 \in Outcomes(r2.kind) :
                   View(Settled(Settled(St, r1, o1), r2, o2))
                       = View(Settled(Settled(St, r2, o2), r1, o1))

\* Calls of all four kinds are pending at once, the clips for a rendered item.
C5_Witness ==
    /\ Len(mounted) = 1
    /\ \A kind \in {"search", "stats", "audio", "video"} :
           \E r \in net : r.kind = kind /\ (kind \in {"audio", "video"} => r.inst = mounted[1])

\* ------------------------------------------------------------------ C6
\* C6. When a second search was started while an earlier one was pending and
\* the last of their answers has arrived, results is the answer to the search
\* started later.
C6_LaterSearchWins ==
    (/\ last.op = "searchSettled"
     /\ ~SearchOutstanding(St)
     /\ latest.overlaps)
    => results = IF latest.status = "ok" THEN SearchBackend(latest.q) ELSE <<>>

\* ------------------------------------------------------------------ C7
\* C7. A rendered item's audioUrl, when not empty, is the url of the clip made
\* for the result the item renders; likewise its videoUrl.
C7_ClipBelongsToResult ==
    \A i \in 1..Len(mounted) :
        /\ inst[mounted[i]].audioUrl # NoUrl =>
               inst[mounted[i]].audioUrl = ClipUrl("audio", ClipParams(results[i]))
        /\ inst[mounted[i]].videoUrl # NoUrl =>
               inst[mounted[i]].videoUrl = ClipUrl("video", ClipParams(results[i]))

\* ------------------------------------------------------------------ C8
\* C8. loading is true exactly while a search is pending, and while one is
\* pending neither the result list nor the empty-state message is shown.
C8_LoadingWhilePending ==
    /\ loading <=> SearchOutstanding(St)
    /\ SearchOutstanding(St) => ~ResultListShown(St) /\ ~EmptyStateShown(St)

\* ------------------------------------------------------------------ C9
PendingFor(kind, k) == {r \in net : r.kind = kind /\ r.inst = k}

\* C9. An audio generation that is refused or throws leaves audioUrl as it
\* was, sets generating back to false, shows the button again on a rendered
\* item and sends nothing; generating is true exactly while the instance's
\* request is pending, the button is not shown then, and a click sends one
\* request. The same for video.
C9_FailedClipResets ==
    /\ [](\A k \in DOMAIN inst :
              /\ inst[k].generating <=> PendingFor("audio", k) # {}
              /\ inst[k].generatingVideo <=> PendingFor("video", k) # {}
              /\ Cardinality(PendingFor("audio", k)) <= 1
              /\ Cardinality(PendingFor("video", k)) <= 1)
    /\ [](\A i \in 1..Len(mounted) :
              /\ inst[mounted[i]].generating => ~AudioButtonShown(St, i)
              /\ inst[mounted[i]].generatingVideo => ~VideoButtonShown(St, i))
    /\ [][ /\ \A r \in net, o \in {"refused", "fail"} :
                 AudioSettles(r, o) =>
                     /\ inst'[r.inst].audioUrl = inst[r.inst].audioUrl
                     /\ ~inst'[r.inst].generating
                     /\ net' = net \ {r}
                     /\ \A i \in 1..Len(mounted') :
                            mounted'[i] = r.inst => AudioButtonShown(St', i)
           /\ \A r \in net, o \in {"refused", "fail"} :
                 VideoSettles(r, o) =>
                     /\ inst'[r.inst].videoUrl = inst[r.inst].videoUrl
                     /\ ~inst'[r.inst].generatingVideo
                     /\ net' = net \ {r}
                     /\ \A i \in 1..Len(mounted') :
                            mounted'[i] = r.inst => VideoButtonShown(St', i)
           /\ \A i \in 1..Len(mounted) :
                 /\ GenerateAudio(i) => Cardinality(net') = Cardinality(net) + 1
                 /\ GenerateVideo(i) => Cardinality(net') = Cardinality(net) + 1 ]_vars

\* The only item ever rendered offers its audio button again after a failure.
C9_Witness ==
    /\ last.op = "audioSettled" /\ last.failed
    /\ latest.id = 1 /\ Len(mounted) = 1
    /\ AudioButtonShown(St, 1)

\* ------------------------------------------------------------------ C10
\* C10. performSearch with an empty or all-whitespace query empties results,
\* sends nothing and leaves loading and stats as they were; a search whose
\* request throws leaves results empty and loading false.
C10_BlankAndFailedSearch ==
    [][ /\ (PerformSearch /\ Trim(query) = <<>>) =>
               /\ results' = <<>>
               /\ net' = net
               /\ loading' = loading
               /\ stats' = stats
        /\ \A r \in net :
               SearchSettles(r, "fail") => results' = <<>> /\ ~loading' ]_vars

\* A search for whitespace, made while another search is pending and after
\* the stats have loaded.
C10_Witness ==
    /\ last.op = "searchBlank"
    /\ query = <<" ">>
    /\ loading /\ stats = StatsBackend /\ results = <<>>

====
